---- MODULE Spec2Model ----
(***************************************************************************)
(* A model of src/st_sfxtool.py: the exchange-rate converter               *)
(* (fetch_latest_rates, convert_amount) and the chat session kept by       *)
(* chatbot_tab in st.session_state.                                        *)
(*                                                                         *)
(* Numbers.  Python floats are modelled as exact rationals [n, d] that are *)
(* rounded after every operation to Prec significant bits, round half to   *)
(* even, as IEEE 754 does with 53 bits.  The variable arith selects the    *)
(* number semantics of a run: "float" (what the code executes) or "real"   *)
(* (no rounding; the arithmetic the specification's algebraic properties   *)
(* are stated in).                                                         *)
(*                                                                         *)
(* Strings.  A currency code is a sequence of one-character strings, so    *)
(* that str.upper() and str.strip() are computed, not assumed.             *)
(*                                                                         *)
(* Specifications.  rates_tab and chatbot_tab share no state, so each has  *)
(* its own next-state relation: Spec runs the rates script (Fetch, Convert, *)
(* Rerun), SpecChat the chat script; each leaves the other's variables     *)
(* alone.  Convert draws the arguments of convert_amount from bounded sets *)
(* (rates_tab's own call, line 100, is one such call).                     *)
(***************************************************************************)
EXTENDS Integers, Sequences, FiniteSets, TLC

VARIABLES
    arith,          \* "float" or "real": the number semantics of this run
    pc,             \* position of the rates script: "fetch", "call", "done"
    snap,           \* the FXSnapshot returned by fetch_latest_rates
    fetch_error,    \* what fetch_latest_rates raised, "" when it returned
    call,           \* the arguments of the convert_amount call
    outcome,        \* what that call returned or raised
    chat_pc,        \* position of chatbot_tab: "idle", "checked", "try", "calling"
    session_state,  \* st.session_state: the keys chat_model and chat_messages
    model,          \* the sidebar's model name of the current run
    sys_prompt,     \* the sidebar's system prompt of the current run
    user_input,     \* what st.chat_input returned in the current run
    sent,           \* the arguments of the run's chat.completions.create call
    last_call       \* how the last try block ended: "none", "ok", "failed"

fx_vars == <<arith, pc, snap, fetch_error, call, outcome>>
chat_vars == <<chat_pc, session_state, model, sys_prompt, user_input, sent, last_call>>
vars == <<arith, pc, snap, fetch_error, call, outcome,
          chat_pc, session_state, model, sys_prompt, user_input, sent, last_call>>

(***************************************************************************)
(* Bounds                                                                  *)
(***************************************************************************)
\* significant bits of the modelled float format
Prec == 3
\* chat_messages is not grown beyond this length
MaxMessages == 4

(***************************************************************************)
(* Rational numbers                                                        *)
(***************************************************************************)
Abs(i) == IF i < 0 THEN -i ELSE i

Sign(i) == IF i < 0 THEN -1 ELSE IF i = 0 THEN 0 ELSE 1

RECURSIVE Gcd(_, _)
Gcd(a, b) == IF b = 0 THEN a ELSE Gcd(b, a % b)

RECURSIVE Pow2(_)
Pow2(e) == IF e = 0 THEN 1 ELSE 2 * Pow2(e - 1)

\* the rational n/d in lowest terms with a positive denominator
Q(n, d) ==
    LET g == Gcd(Abs(n), Abs(d))
    IN  [n |-> (Sign(d) * n) \div g, d |-> Abs(d) \div g]

Int2Q(i) == [n |-> i, d |-> 1]

QMul(a, b) == Q(a.n * b.n, a.d * b.d)

\* defined for b # 0 only
QDiv(a, b) == Q(a.n * b.d, a.d * b.n)

\* nearest integer to n/d (n >= 0, d > 0), ties to the even one
RoundHalfEven(n, d) ==
    LET f == n \div d
        r == n % d
    IN  IF 2 * r < d THEN f
        ELSE IF 2 * r > d THEN f + 1
        ELSE IF f % 2 = 0 THEN f ELSE f + 1

\* n/d (n > 0, d > 0) rounded to Prec significant bits
RECURSIVE RoundScaled(_, _)
RoundScaled(n, d) ==
    IF n >= Pow2(Prec) * d THEN QMul(Int2Q(2), RoundScaled(n, 2 * d))
    ELSE IF n < Pow2(Prec - 1) * d THEN QMul(Q(1, 2), RoundScaled(2 * n, d))
    ELSE Int2Q(RoundHalfEven(n, d))

\* the float nearest to the rational q
RoundToFloat(q) ==
    IF q.n = 0 THEN q
    ELSE QMul(Int2Q(Sign(q.n)), RoundScaled(Abs(q.n), q.d))

\* the value a float operation delivers for the exact result q
fl(q) == IF arith = "real" THEN q ELSE RoundToFloat(q)

(***************************************************************************)
(* Strings                                                                 *)
(***************************************************************************)
Whitespace == {" ", "\t", "\n"}

ToUpper ==
    ("u" :> "U") @@ ("s" :> "S") @@ ("d" :> "D") @@ ("k" :> "K") @@
    ("r" :> "R") @@ ("w" :> "W") @@ ("e" :> "E") @@ ("g" :> "G") @@
    ("b" :> "B") @@ ("p" :> "P")

\* str.upper()
upper(s) == [i \in 1..Len(s) |-> IF s[i] \in DOMAIN ToUpper THEN ToUpper[s[i]] ELSE s[i]]

\* str.strip(): leading and trailing whitespace removed
RECURSIVE strip(_)
strip(s) ==
    IF s = <<>> THEN s
    ELSE IF Head(s) \in Whitespace THEN strip(Tail(s))
    ELSE IF s[Len(s)] \in Whitespace THEN strip(SubSeq(s, 1, Len(s) - 1))
    ELSE s

USD == <<"U", "S", "D">>
KRW == <<"K", "R", "W">>
EUR == <<"E", "U", "R">>
GBP == <<"G", "B", "P">>

(***************************************************************************)
(* Inputs: what callers pass and what the rate provider answers            *)
(***************************************************************************)
\* the codes the rate provider quotes (upper case, as ISO 4217 codes are)
QuotedCodes == {USD, KRW, EUR}

\* code arguments: each code in upper case, in lower case, and in mixed
\* case with surrounding whitespace
CodeInputs ==
    { USD, <<"u", "s", "d">>, <<" ", "U", "s", "d", "\t">>,
      KRW, <<"k", "r", "w">>, <<"K", "r", "W", " ">>,
      EUR, <<"e", "u", "r">>, <<"\n", "e", "U", "r">>,
      GBP, <<"g", "b", "p">>, <<" ", "G", "b", "p", " ">> }

\* base arguments of fetch_latest_rates
BaseInputs == { USD, <<" ", "u", "s", "d">>, KRW, <<"k", "R", "w", " ">> }

\* rate values of an upstream answer; nothing in the code restricts them
RateValues == { Int2Q(-2), Int2Q(0), Int2Q(1), Int2Q(3) }

\* amount arguments
Amounts == { Int2Q(-5), Int2Q(0), Q(1, 2), Int2Q(7) }

\* every dict of rates over the quoted codes
RateDicts == UNION { [keys -> RateValues] : keys \in SUBSET QuotedCodes }

Timestamp == 1700000000

\* r.json() of a request for the base `requested`: the provider answers for the base it
\* was asked for, with any rates
Responses(requested) ==
    { [status |-> "http_error"], [status |-> "api_error"] } \cup
    { [status |-> "success", base_code |-> requested,
       time_last_update_unix |-> Timestamp, rates |-> r] : r \in RateDicts }

(***************************************************************************)
(* fetch_latest_rates and convert_amount                                   *)
(***************************************************************************)
FXSnapshot(base, timestamp_utc, rates) ==
    [base |-> base, timestamp_utc |-> timestamp_utc, rates |-> rates]

NoSnapshot == FXSnapshot(<<>>, 0, <<>>)

NoCall == [amount |-> Int2Q(0), from_code |-> <<>>, to_code |-> <<>>]

Returned(q) == [kind |-> "return", value |-> q]

Raised(exc) == [kind |-> exc]

ValueError(from_code, to_code) ==
    [kind |-> "ValueError", from_code |-> from_code, to_code |-> to_code]

NoOutcome == [kind |-> "none"]

\* the base that goes into the request URL
url_base(base) == strip(upper(base))

\* what fetch_latest_rates(base) does with the provider's answer.  The
\* st.cache_data wrapper hands back, for 60 seconds, a snapshot this same
\* function built earlier for the same argument: it adds no snapshot and is
\* not modelled.
fetch_latest_rates(base, response) ==
    IF response.status = "http_error" THEN Raised("HTTPError")
    ELSE IF response.status # "success" THEN Raised("RuntimeError")
    ELSE Returned(FXSnapshot(response.base_code,
                             response.time_last_update_unix,
                             response.rates))

\* float * float
float_mul(a, b) == Returned(fl(QMul(a, b)))

\* float / float
float_truediv(a, b) ==
    IF b.n = 0 THEN Raised("ZeroDivisionError") ELSE Returned(fl(QDiv(a, b)))

\* mutant: the code is stripped but not upper-cased
normalize_code_no_upper(code) == strip(code)

\* from_code.upper().strip()
normalize_code(code) == strip(upper(code))

\* mutant: the cross case is tried before the direct and inverse cases
convert_amount_cross_first(amount, from_code, to_code, s) ==
    LET f == normalize_code(from_code)
        t == normalize_code(to_code)
    IN  IF f \in DOMAIN s.rates /\ t \in DOMAIN s.rates
            THEN LET q == float_truediv(amount, s.rates[f])
                 IN  IF q.kind = "return"
                         THEN float_mul(q.value, s.rates[t])
                         ELSE q
        ELSE IF f = s.base /\ t \in DOMAIN s.rates
            THEN float_mul(amount, s.rates[t])
        ELSE IF t = s.base /\ f \in DOMAIN s.rates
            THEN float_truediv(amount, s.rates[f])
        ELSE ValueError(f, t)

\* mutant: there is no cross case
convert_amount_no_cross(amount, from_code, to_code, s) ==
    LET f == normalize_code(from_code)
        t == normalize_code(to_code)
    IN  IF f = s.base /\ t \in DOMAIN s.rates
            THEN float_mul(amount, s.rates[t])
        ELSE IF t = s.base /\ f \in DOMAIN s.rates
            THEN float_truediv(amount, s.rates[f])
        ELSE ValueError(f, t)

\* mutant: the inverse case multiplies by the rate
convert_amount_inverse_mul(amount, from_code, to_code, s) ==
    LET f == normalize_code(from_code)
        t == normalize_code(to_code)
    IN  IF f = s.base /\ t \in DOMAIN s.rates
            THEN float_mul(amount, s.rates[t])
        ELSE IF t = s.base /\ f \in DOMAIN s.rates
            THEN float_mul(amount, s.rates[f])
        ELSE IF f \in DOMAIN s.rates /\ t \in DOMAIN s.rates
            THEN LET q == float_truediv(amount, s.rates[f])
                 IN  IF q.kind = "return"
                         THEN float_mul(q.value, s.rates[t])
                         ELSE q
        ELSE ValueError(f, t)

\* mutant: the result of the direct case is rounded to a whole number
convert_amount_rounded(amount, from_code, to_code, s) ==
    LET f == normalize_code(from_code)
        t == normalize_code(to_code)
        round(q) == Int2Q(Sign(q.n) * RoundHalfEven(Abs(q.n), q.d))
    IN  IF f = s.base /\ t \in DOMAIN s.rates
            THEN Returned(round(float_mul(amount, s.rates[t]).value))
        ELSE IF t = s.base /\ f \in DOMAIN s.rates
            THEN float_truediv(amount, s.rates[f])
        ELSE IF f \in DOMAIN s.rates /\ t \in DOMAIN s.rates
            THEN LET q == float_truediv(amount, s.rates[f])
                 IN  IF q.kind = "return"
                         THEN float_mul(q.value, s.rates[t])
                         ELSE q
        ELSE ValueError(f, t)

convert_amount(amount, from_code, to_code, s) ==
    LET f == normalize_code(from_code)
        t == normalize_code(to_code)
    IN  IF f = s.base /\ t \in DOMAIN s.rates
            THEN float_mul(amount, s.rates[t])
        ELSE IF t = s.base /\ f \in DOMAIN s.rates
            THEN float_truediv(amount, s.rates[f])
        ELSE IF f \in DOMAIN s.rates /\ t \in DOMAIN s.rates
            THEN LET q == float_truediv(amount, s.rates[f])
                 IN  IF q.kind = "return"
                         THEN float_mul(q.value, s.rates[t])
                         ELSE q
        ELSE ValueError(f, t)

(***************************************************************************)
(* chatbot_tab: the session state and the message list                     *)
(***************************************************************************)
\* model names typed into the sidebar
Models == {"gpt-4o-mini", "llama-3"}

\* system prompts typed into the sidebar (blank ones are not sent)
SysPrompts == { <<>>, <<" ", "\n">>, <<" ", "s", "y", "s", " ">> }

\* what st.chat_input returns: "" stands for None (nothing submitted)
UserInputs == {"", "hi", "help"}

\* message contents the completion call answers with
Contents == {"hello"}

\* a message dict; the field model is history: the model selected in the run
\* that built the message
Message(role, content, m) == [role |-> role, content |-> content, model |-> m]

EmptySession == [keys |-> {}, chat_model |-> "", chat_messages |-> <<>>]

\* "if ... not in st.session_state": the two keys are created when absent
init_session(m, st) ==
    LET st1 == IF "chat_messages" \notin st.keys
                   THEN [st EXCEPT !.keys = @ \cup {"chat_messages"},
                                   !.chat_messages = <<>>]
                   ELSE st
    IN  IF "chat_model" \notin st1.keys
            THEN [st1 EXCEPT !.keys = @ \cup {"chat_model"}, !.chat_model = m]
            ELSE st1

\* mutant: a changed model is stored but the conversation is kept
check_model_keep_messages(m, st) ==
    IF m # st.chat_model THEN [st EXCEPT !.chat_model = m] ELSE st

\* "if model != st.session_state.chat_model": the conversation is reset
check_model(m, st) ==
    IF m # st.chat_model
        THEN [st EXCEPT !.chat_model = m, !.chat_messages = <<>>]
        ELSE st

\* mutant: the user's message is not stored before the call
append_user_forgotten(st, text, m) == st

\* chat_messages.append({"role": "user", "content": user_input})
append_user(st, text, m) ==
    [st EXCEPT !.chat_messages = Append(@, Message("user", text, m))]

\* chat_messages.append({"role": "assistant", "content": content})
append_assistant(st, content, m) ==
    [st EXCEPT !.chat_messages = Append(@, Message("assistant", content, m))]

\* the messages argument: the system prompt, when not blank, then the
\* conversation
build_messages(sp, st, m) ==
    (IF strip(sp) # <<>> THEN <<Message("system", strip(sp), m)>> ELSE <<>>)
        \o st.chat_messages

NothingSent == [model |-> "", messages |-> <<>>]

(***************************************************************************)
(* The rates script: fetch a snapshot, then convert with it                *)
(***************************************************************************)
InitFX ==
    /\ arith \in {"float", "real"}
    /\ pc = "fetch"
    /\ snap = NoSnapshot
    /\ fetch_error = ""
    /\ call = NoCall
    /\ outcome = NoOutcome

InitChat ==
    /\ chat_pc = "idle"
    /\ session_state = EmptySession
    /\ model = ""
    /\ sys_prompt = <<>>
    /\ user_input = ""
    /\ sent = NothingSent
    /\ last_call = "none"

Init == InitFX /\ InitChat

\* fetch_latest_rates(base) returns a snapshot, or raises
Fetch ==
    /\ pc = "fetch"
    /\ \E base \in BaseInputs : \E response \in Responses(url_base(base)) :
         LET got == fetch_latest_rates(base, response)
         IN  IF got.kind = "return"
                 THEN /\ snap' = got.value
                      /\ fetch_error' = ""
                      /\ pc' = "call"
                 ELSE /\ snap' = snap
                      /\ fetch_error' = got.kind
                      /\ pc' = "fetch"
    /\ UNCHANGED <<arith, call, outcome>>
    /\ UNCHANGED chat_vars

\* convert_amount(amount, from_code, to_code, snap) is called
Convert ==
    /\ pc = "call"
    /\ \E amount \in Amounts : \E from_code \in CodeInputs : \E to_code \in CodeInputs :
         /\ call' = [amount |-> amount, from_code |-> from_code, to_code |-> to_code]
         /\ outcome' = convert_amount(amount, from_code, to_code, snap)
    /\ pc' = "done"
    /\ UNCHANGED <<arith, snap, fetch_error>>
    /\ UNCHANGED chat_vars

\* the script is rerun from the top
Rerun ==
    /\ pc = "done"
    /\ pc' = "fetch"
    /\ snap' = NoSnapshot
    /\ fetch_error' = ""
    /\ call' = NoCall
    /\ outcome' = NoOutcome
    /\ UNCHANGED arith
    /\ UNCHANGED chat_vars

Next == Fetch \/ Convert \/ Rerun

Spec == Init /\ [][Next]_vars

(***************************************************************************)
(* The chat script: one run of chatbot_tab per rerun                       *)
(***************************************************************************)
\* the run starts: the sidebar and the chat input are read, the session keys
\* are created and the model is checked against the stored one
ChatRun ==
    /\ chat_pc = "idle"
    /\ \E m \in Models : \E sp \in SysPrompts : \E text \in UserInputs :
         LET st == check_model(m, init_session(m, session_state))
         IN  /\ text # "" => Len(st.chat_messages) < MaxMessages
             /\ session_state' = st
             /\ model' = m
             /\ sys_prompt' = sp
             /\ user_input' = text
    /\ chat_pc' = "checked"
    /\ UNCHANGED <<sent, last_call>>
    /\ UNCHANGED fx_vars

\* "if user_input:" is false: the run ends
NoInput ==
    /\ chat_pc = "checked"
    /\ user_input = ""
    /\ chat_pc' = "idle"
    /\ model' = ""
    /\ sys_prompt' = <<>>
    /\ UNCHANGED <<session_state, user_input, sent, last_call>>
    /\ UNCHANGED fx_vars

\* the user's message is appended, then the try block is entered
AppendUser ==
    /\ chat_pc = "checked"
    /\ user_input # ""
    /\ session_state' = append_user(session_state, user_input, model)
    /\ chat_pc' = "try"
    /\ UNCHANGED <<model, sys_prompt, user_input, sent, last_call>>
    /\ UNCHANGED fx_vars

\* get_openai_client raises: the except branch shows the error
ClientFails ==
    /\ chat_pc = "try"
    /\ last_call' = "failed"
    /\ chat_pc' = "idle"
    /\ model' = ""
    /\ sys_prompt' = <<>>
    /\ user_input' = ""
    /\ UNCHANGED <<session_state, sent>>
    /\ UNCHANGED fx_vars

\* the messages are built and chat.completions.create is called
Create ==
    /\ chat_pc = "try"
    /\ sent' = [model |-> model,
                messages |-> build_messages(sys_prompt, session_state, model)]
    /\ chat_pc' = "calling"
    /\ UNCHANGED <<session_state, model, sys_prompt, user_input, last_call>>
    /\ UNCHANGED fx_vars

\* the call raises: the except branch shows the error
CallFails ==
    /\ chat_pc = "calling"
    /\ last_call' = "failed"
    /\ chat_pc' = "idle"
    /\ model' = ""
    /\ sys_prompt' = <<>>
    /\ user_input' = ""
    /\ sent' = NothingSent
    /\ UNCHANGED session_state
    /\ UNCHANGED fx_vars

\* the call returns: the answer is appended
CallSucceeds ==
    /\ chat_pc = "calling"
    /\ \E content \in Contents :
         session_state' = append_assistant(session_state, content, model)
    /\ last_call' = "ok"
    /\ chat_pc' = "idle"
    /\ model' = ""
    /\ sys_prompt' = <<>>
    /\ user_input' = ""
    /\ sent' = NothingSent
    /\ UNCHANGED fx_vars

NextChat ==
    ChatRun \/ NoInput \/ AppendUser \/ ClientFails \/ Create \/ CallFails \/ CallSucceeds

InitChatRuns == Init /\ arith = "float"

SpecChat == InitChatRuns /\ [][NextChat]_vars

(***************************************************************************)
(* Vocabulary of the claims about convert_amount                           *)
(***************************************************************************)
\* a convert_amount call has been made and has ended
Called == pc = "done"

\* a snapshot has been fetched
Fetched == pc \in {"call", "done"}

\* the codes of the call as the code normalizes them: upper case, stripped
FromCode == strip(upper(call.from_code))
ToCode == strip(upper(call.to_code))

IsPivot(code) == code = snap.base
IsKey(code) == code \in DOMAIN snap.rates
Covered(code) == IsPivot(code) \/ IsKey(code)

Direct(f, t) == IsPivot(f) /\ IsKey(t)
Inverse(f, t) == IsPivot(t) /\ IsKey(f)
Cross(f, t) == IsKey(f) /\ IsKey(t)

AllRatesPositive == \A k \in DOMAIN snap.rates : snap.rates[k].n > 0

\* the number x op y of the run's arithmetic
Times(x, y) == fl(QMul(x, y))
Over(x, y) == fl(QDiv(x, y))

\* the outcome is the result of the first case that matches f and t; a case
\* whose divisor is zero has no result
FirstMatchingCase(f, t) ==
    LET x == call.amount
        r == snap.rates
    IN  IF Direct(f, t) THEN outcome = Returned(Times(x, r[t]))
        ELSE IF Inverse(f, t)
            THEN IF r[f].n = 0 THEN outcome.kind # "return"
                 ELSE outcome = Returned(Over(x, r[f]))
        ELSE IF Cross(f, t)
            THEN IF r[f].n = 0 THEN outcome.kind # "return"
                 ELSE outcome = Returned(Times(Over(x, r[f]), r[t]))
        ELSE outcome.kind # "return"

\* C1, as stated: with the codes upper-cased (and nothing else done to
\* them), convert_amount returns the result of the first matching case among
\* direct, inverse and cross, and no other value.
C1_FirstMatch_UpperOnly ==
    Called => FirstMatchingCase(upper(call.from_code), upper(call.to_code))

\* C1, amended: with the codes upper-cased and stripped of surrounding
\* whitespace, convert_amount returns the result of the first matching case
\* among direct, inverse and cross, and no other value.
C1_FirstMatch ==
    Called => FirstMatchingCase(FromCode, ToCode)

\* a cross conversion of whitespace-padded codes, under a snapshot that also
\* quotes its own pivot, returned a number
C1_Witness ==
    /\ Called
    /\ outcome.kind = "return"
    /\ Cross(FromCode, ToCode) /\ ~Direct(FromCode, ToCode) /\ ~Inverse(FromCode, ToCode)
    /\ IsKey(snap.base)
    /\ call.from_code # upper(call.from_code)
    /\ call.from_code # FromCode

\* C2: when no case matches, convert_amount fails with the unsupported-pair
\* error carrying both normalized codes; with strictly positive rates and
\* different codes it fails in no other situation.
C2_UnsupportedPair ==
    Called =>
        LET none == ~Direct(FromCode, ToCode) /\ ~Inverse(FromCode, ToCode)
                    /\ ~Cross(FromCode, ToCode)
        IN  /\ none => outcome = ValueError(FromCode, ToCode)
            /\ (~none /\ AllRatesPositive /\ FromCode # ToCode)
                   => outcome.kind = "return"

\* a call with one quoted and one unquoted code failed, naming codes that
\* differ from the arguments as passed
C2_Witness ==
    /\ Called
    /\ outcome.kind = "ValueError"
    /\ Covered(FromCode) /\ ~Covered(ToCode)
    /\ outcome.from_code # call.from_code
    /\ AllRatesPositive /\ DOMAIN snap.rates # {}

\* C3: whenever the two codes are equal, convert_amount returns the amount
\* unchanged, also when both are the pivot and the pivot has no rate (stated
\* for a covered code, strictly positive rates and exact arithmetic, where
\* nothing but the handling of equal codes decides the outcome).
C3_EqualCodesIdentity ==
    (Called /\ FromCode = ToCode /\ Covered(FromCode)
        /\ AllRatesPositive /\ arith = "real")
        => outcome = Returned(call.amount)

\* C4: a snapshot holding a zero or negative rate is rejected: no call with
\* it returns a number or fails with a division by zero.
C4_NonPositiveRejected ==
    (Called /\ ~AllRatesPositive)
        => outcome.kind \notin {"return", "ZeroDivisionError"}

\* C5: a snapshot built by fetch_latest_rates has no rate for its own pivot.
C5_PivotNotInRates ==
    Fetched => snap.base \notin DOMAIN snap.rates

\* C6: under exact arithmetic and strictly positive rates, converting x from
\* A to B and the result back from B to A succeeds and gives x, for covered
\* codes A # B.
C6_RoundTrip ==
    (Called /\ arith = "real" /\ AllRatesPositive
        /\ Covered(FromCode) /\ Covered(ToCode) /\ FromCode # ToCode)
        => /\ outcome.kind = "return"
           /\ convert_amount(outcome.value, call.to_code, call.from_code, snap)
                = Returned(call.amount)

\* a cross conversion of a nonzero amount that changed it, to be taken back
C6_Witness ==
    /\ Called /\ arith = "real" /\ AllRatesPositive
    /\ IsKey(FromCode) /\ IsKey(ToCode) /\ FromCode # ToCode
    /\ ~IsPivot(FromCode) /\ ~IsPivot(ToCode)
    /\ outcome.kind = "return"
    /\ outcome.value # call.amount

Scalars == { Int2Q(-1), Int2Q(0), Q(1, 2), Int2Q(3) }

\* convert_amount(k*x, A, B, s) = k * convert_amount(x, A, B, s) for every
\* scalar k, x the call's amount
Linear ==
    \A k \in Scalars :
        convert_amount(Times(k, call.amount), call.from_code, call.to_code, snap)
            = Returned(Times(k, outcome.value))

\* C7, as stated: for strictly positive rates and a covered pair, conversion
\* is linear in the amount, in the arithmetic the code runs.
C7_Linear_AnyArithmetic ==
    (Called /\ AllRatesPositive /\ outcome.kind = "return" /\ FromCode # ToCode)
        => Linear

\* C7, amended: under exact arithmetic, for strictly positive rates and a
\* covered pair, conversion is linear in the amount; a zero amount converts
\* to zero and the result has the sign of the amount.
C7_Linear ==
    (Called /\ arith = "real" /\ AllRatesPositive /\ outcome.kind = "return")
        => /\ Linear
           /\ Sign(outcome.value.n) = Sign(call.amount.n)

\* an inverse conversion of a negative amount under exact arithmetic
C7_Witness ==
    /\ Called /\ arith = "real" /\ AllRatesPositive
    /\ outcome.kind = "return"
    /\ Inverse(FromCode, ToCode) /\ ~Direct(FromCode, ToCode)
    /\ call.amount.n < 0
    /\ outcome.value # call.amount

\* C8: under a snapshot whose codes are upper case, a call gives the same
\* outcome as the call with both code arguments upper-cased.
C8_CaseInsensitive ==
    (Called /\ snap.base = upper(snap.base)
        /\ \A k \in DOMAIN snap.rates : k = upper(k))
        => outcome = convert_amount(call.amount, upper(call.from_code),
                                    upper(call.to_code), snap)

\* a direct conversion whose codes were passed in lower case returned a number
C8_Witness ==
    /\ Called
    /\ outcome.kind = "return"
    /\ Direct(FromCode, ToCode)
    /\ call.from_code # upper(call.from_code)
    /\ call.to_code # upper(call.to_code)

(***************************************************************************)
(* Claims about the chat session                                           *)
(***************************************************************************)
Messages == session_state.chat_messages

\* C9: once a run has checked the model, chat_model is the selected model;
\* every message of chat_messages, and every message given to the completion
\* call, was built while the model now in force was selected (so a changed
\* model leaves no earlier message behind when the input is processed).
C9_MessagesOfCurrentModel ==
    /\ chat_pc # "idle" =>
          /\ {"chat_model", "chat_messages"} \subseteq session_state.keys
          /\ session_state.chat_model = model
    /\ \A i \in 1..Len(Messages) : Messages[i].model = session_state.chat_model
    /\ chat_pc = "calling" =>
          /\ sent.model = model
          /\ \A i \in 1..Len(sent.messages) : sent.messages[i].model = sent.model

\* a completion call is under way with the system prompt and one user
\* message only, although an earlier call was answered: the model was changed
\* in between and the earlier conversation dropped
C9_Witness ==
    /\ chat_pc = "calling"
    /\ last_call = "ok"
    /\ Len(Messages) = 1
    /\ Len(sent.messages) = 2
    /\ sent.messages[1].role = "system"

\* C10, as stated: chat_messages always alternates user and assistant
\* messages, and ends with a user message, between runs, only after a failed
\* call.
C10_Alternates ==
    /\ \A i \in 1..Len(Messages) :
          Messages[i].role = IF i % 2 = 1 THEN "user" ELSE "assistant"
    /\ (chat_pc = "idle" /\ Messages # <<>> /\ Messages[Len(Messages)].role = "user")
          => last_call = "failed"

\* the message list starts with a user message, every assistant message
\* directly follows a user message, and between runs the list ends with a
\* user message only after a failed call
C10_Shape ==
    /\ \A i \in 1..Len(Messages) :
          /\ Messages[i].role \in {"user", "assistant"}
          /\ Messages[i].role = "assistant" => (i > 1 /\ Messages[i - 1].role = "user")
    /\ (chat_pc = "idle" /\ Messages # <<>> /\ Messages[Len(Messages)].role = "user")
          => last_call = "failed"

\* a run with input appends exactly its user message before the call; the
\* call appends one assistant message when it succeeds and leaves the list
\* alone when it fails
C10_Step ==
    /\ (chat_pc = "checked" /\ user_input # "") =>
          /\ chat_pc' = "try"
          /\ Len(Messages) < MaxMessages
          /\ session_state'.chat_messages
                = Append(Messages, Message("user", user_input, model))
    /\ chat_pc = "try" => session_state'.chat_messages = Messages
    /\ chat_pc = "calling" =>
          \/ /\ last_call' = "ok"
             /\ Len(session_state'.chat_messages) = Len(Messages) + 1
             /\ SubSeq(session_state'.chat_messages, 1, Len(Messages)) = Messages
             /\ session_state'.chat_messages[Len(Messages) + 1].role = "assistant"
             /\ Messages[Len(Messages)].role = "user"
          \/ /\ last_call' = "failed"
             /\ session_state'.chat_messages = Messages

\* C10, amended: in every run that receives input exactly one user message
\* is appended before the completion call, an assistant message is appended
\* directly after it if and only if the call succeeds, and a failed call
\* leaves the list as it is; so the list starts with a user message, every
\* assistant message directly follows a user message, and between runs the
\* list ends with a user message only after a failed call.  (Two user
\* messages are adjacent when the earlier one's call failed.)
C10_AppendDiscipline == []C10_Shape /\ [][C10_Step]_vars

\* after a failed call and a later successful one: two adjacent user
\* messages, then the answer
C10_Witness ==
    /\ chat_pc = "idle"
    /\ last_call = "ok"
    /\ Len(Messages) = 3
    /\ Messages[1].role = "user"
    /\ Messages[2].role = "user"
    /\ Messages[3].role = "assistant"

====
